---------------------------- MODULE Spec2Model ----------------------------
(***************************************************************************)
(* Model of io_scene_3ds/__init__.py: the Import3DS / Export3DS operators, *)
(* their four file-browser option panels, the two menu callbacks and       *)
(* register()/unregister().                                                *)
(*                                                                         *)
(* The add-on runs inside a host (bpy).  The host calls the model needs    *)
(* are modelled by what they do:                                           *)
(*   - Operator.as_keywords(ignore): a copy of every RNA property of the   *)
(*     operator except the ignored ones;                                   *)
(*   - orientation_helper: adds axis_forward / axis_up whose update        *)
(*     callbacks keep the two on different axes;                           *)
(*   - axis_conversion(...).to_4x4(): the change-of-basis rotation;        *)
(*   - register_class / unregister_class, Menu.append / Menu.remove;       *)
(*   - the identifier an operator instance reports (MODULE_OT_name).       *)
(***************************************************************************)
EXTENDS Integers, Sequences, FiniteSets, TLC

(***************************************************************************)
(* Bounds                                                                  *)
(***************************************************************************)
\* property edits the user makes in one file-browser session
MaxEdits == 2

None == "None"

(***************************************************************************)
(* Identifiers.  Strings whose characters matter are sequences of          *)
(* one-character strings.                                                  *)
(***************************************************************************)
LowerChars ==
  <<"a","b","c","d","e","f","g","h","i","j","k","l","m",
    "n","o","p","q","r","s","t","u","v","w","x","y","z">>

UpperChars ==
  <<"A","B","C","D","E","F","G","H","I","J","K","L","M",
    "N","O","P","Q","R","S","T","U","V","W","X","Y","Z">>

\* BLI_str_toupper_ascii on one character
ToUpperChar(c) ==
  IF \E i \in 1..Len(LowerChars) : LowerChars[i] = c
  THEN UpperChars[CHOOSE i \in 1..Len(LowerChars) : LowerChars[i] = c]
  ELSE c

\* strchr(src, '.'): index of the first dot, 0 when there is none
DotIndex(s) ==
  IF \E i \in 1..Len(s) : s[i] = "."
  THEN CHOOSE i \in 1..Len(s) :
         s[i] = "." /\ \A j \in 1..(i - 1) : s[j] # "."
  ELSE 0

\* The identifier the host stores for a registered operator and reports as
\* operator.bl_idname on an instance: "module.name" -> "MODULE_OT_name".
RnaIdname(s) ==
  LET d == DotIndex(s) IN
  IF d = 0 THEN s
  ELSE [i \in 1..(d - 1) |-> ToUpperChar(s[i])]
         \o <<"_","O","T","_">>
         \o SubSeq(s, d + 1, Len(s))

Import3DS_bl_idname ==
  <<"i","m","p","o","r","t","_","s","c","e","n","e",".","m","a","x","3","d","s">>

Export3DS_bl_idname ==
  <<"e","x","p","o","r","t","_","s","c","e","n","e",".","m","a","x","3","d","s">>

\* operators of other add-ons that may own the file browser
ImportOBJ_bl_idname ==
  <<"i","m","p","o","r","t","_","s","c","e","n","e",".","o","b","j">>

ExportOBJ_bl_idname ==
  <<"e","x","p","o","r","t","_","s","c","e","n","e",".","o","b","j">>

OurOperators == {"Import3DS", "Export3DS"}

OtherOperators == {"ImportOBJ", "ExportOBJ"}

Operators == OurOperators \cup OtherOperators

BlIdname(op) ==
  CASE op = "Import3DS" -> Import3DS_bl_idname
    [] op = "Export3DS" -> Export3DS_bl_idname
    [] op = "ImportOBJ" -> ImportOBJ_bl_idname
    [] op = "ExportOBJ" -> ExportOBJ_bl_idname

(***************************************************************************)
(* Axes and matrices                                                       *)
(***************************************************************************)
Axes == {"X", "Y", "Z", "-X", "-Y", "-Z"}

\* axis[-1]
AxisLetter(a) ==
  CASE a \in {"X", "-X"} -> "X"
    [] a \in {"Y", "-Y"} -> "Y"
    [] a \in {"Z", "-Z"} -> "Z"

\* axis[0:-1]
AxisPrefix(a) == IF a \in {"-X", "-Y", "-Z"} THEN "-" ELSE ""

\* prefix + letter
MakeAxis(prefix, letter) ==
  IF prefix = "-"
  THEN (CASE letter = "X" -> "-X" [] letter = "Y" -> "-Y" [] letter = "Z" -> "-Z")
  ELSE letter

\* 'XYZ'[('XYZ'.index(letter) + 1) % 3]
NextLetter(letter) ==
  CASE letter = "X" -> "Y"
    [] letter = "Y" -> "Z"
    [] letter = "Z" -> "X"

AxisVec(a) ==
  CASE a = "X"  -> <<1, 0, 0>>
    [] a = "Y"  -> <<0, 1, 0>>
    [] a = "Z"  -> <<0, 0, 1>>
    [] a = "-X" -> <<-1, 0, 0>>
    [] a = "-Y" -> <<0, -1, 0>>
    [] a = "-Z" -> <<0, 0, -1>>

Cross(a, b) ==
  << a[2] * b[3] - a[3] * b[2],
     a[3] * b[1] - a[1] * b[3],
     a[1] * b[2] - a[2] * b[1] >>

Identity3 == << <<1, 0, 0>>, <<0, 1, 0>>, <<0, 0, 1>> >>

Identity4 == << <<1, 0, 0, 0>>, <<0, 1, 0, 0>>, <<0, 0, 1, 0>>, <<0, 0, 0, 1>> >>

Transpose3(m) == [i \in 1..3 |-> [j \in 1..3 |-> m[j][i]]]

MatMul3(a, b) ==
  [i \in 1..3 |-> [j \in 1..3 |->
     a[i][1] * b[1][j] + a[i][2] * b[2][j] + a[i][3] * b[3][j]]]

MatMul4(a, b) ==
  [i \in 1..4 |-> [j \in 1..4 |->
     a[i][1] * b[1][j] + a[i][2] * b[2][j] + a[i][3] * b[3][j] + a[i][4] * b[4][j]]]

MatVec4(m, v) ==
  [i \in 1..4 |-> m[i][1] * v[1] + m[i][2] * v[2] + m[i][3] * v[3] + m[i][4] * v[4]]

\* rows: right, forward, up of the (forward, up) frame
FrameRows(forward, up) ==
  << Cross(AxisVec(forward), AxisVec(up)), AxisVec(forward), AxisVec(up) >>

\* bpy_extras.io_utils.axis_conversion raises when forward and up lie on the
\* same axis (the identical-frames shortcut is taken first)
axis_conversion_raises(from_forward, from_up, to_forward, to_up) ==
  /\ ~(from_forward = to_forward /\ from_up = to_up)
  /\ \/ AxisLetter(from_forward) = AxisLetter(from_up)
     \/ AxisLetter(to_forward) = AxisLetter(to_up)

\* bpy_extras.io_utils.axis_conversion: the 3x3 rotation taking coordinates
\* in the (from_forward, from_up) frame to the (to_forward, to_up) frame.
axis_conversion(from_forward, from_up, to_forward, to_up) ==
  IF from_forward = to_forward /\ from_up = to_up THEN Identity3
  ELSE MatMul3(Transpose3(FrameRows(to_forward, to_up)),
               FrameRows(from_forward, from_up))

\* Matrix.to_4x4()
to_4x4(m) ==
  [i \in 1..4 |-> [j \in 1..4 |->
     IF i <= 3 /\ j <= 3 THEN m[i][j] ELSE IF i = j THEN 1 ELSE 0]]

(***************************************************************************)
(* Operator properties                                                     *)
(***************************************************************************)
\* properties annotated in the body of class Import3DS
Import3DS_annotations ==
  {"filter_glob", "constrain_size", "convert_measure", "use_image_search",
   "use_apply_transform", "read_keyframe", "use_world_matrix"}

\* properties annotated in the body of class Export3DS
Export3DS_annotations ==
  {"filter_glob", "scale_factor", "use_selection", "use_hierarchy",
   "write_keyframe"}

\* @orientation_helper(axis_forward='Y', axis_up='Z') adds these two
OrientationProps == {"axis_forward", "axis_up"}

\* inherited from the ImportHelper / ExportHelper mixins
ImportHelperProps == {"filepath"}

ExportHelperProps == {"filepath", "check_existing"}

\* options={'HIDDEN'}
HiddenProps == {"filter_glob", "check_existing"}

\* what the class itself declares: its annotations and its decorator
DeclaredProps(op) ==
  CASE op = "Import3DS" -> Import3DS_annotations \cup OrientationProps
    [] op = "Export3DS" -> Export3DS_annotations \cup OrientationProps
    [] OTHER -> {}

InheritedProps(op) ==
  CASE op = "Import3DS" -> ImportHelperProps
    [] op = "Export3DS" -> ExportHelperProps
    [] OTHER -> {"filepath"}

\* a new Import3DS instance: every property at its default
Import3DS_defaults ==
  [filter_glob |-> "*.3ds",
   constrain_size |-> 10,
   convert_measure |-> FALSE,
   use_image_search |-> TRUE,
   use_apply_transform |-> TRUE,
   read_keyframe |-> TRUE,
   use_world_matrix |-> FALSE,
   axis_forward |-> "Y",
   axis_up |-> "Z",
   filepath |-> ""]

\* a new Export3DS instance
Export3DS_defaults ==
  [filter_glob |-> "*.3ds",
   scale_factor |-> 1,
   use_selection |-> FALSE,
   use_hierarchy |-> FALSE,
   write_keyframe |-> FALSE,
   axis_forward |-> "Y",
   axis_up |-> "Z",
   filepath |-> "",
   check_existing |-> TRUE]

\* an operator of another add-on: only its path matters here
OtherDefaults == [filepath |-> ""]

Defaults(op) ==
  CASE op = "Import3DS" -> Import3DS_defaults
    [] op = "Export3DS" -> Export3DS_defaults
    [] OTHER -> OtherDefaults

NoProps == [none |-> TRUE]

BoolProps ==
  {"convert_measure", "use_image_search", "use_apply_transform",
   "read_keyframe", "use_world_matrix", "use_selection", "use_hierarchy",
   "write_keyframe"}

FloatProps == {"constrain_size", "scale_factor"}

\* FloatProperty(min=..., max=...)
FloatMin(name) == 0

FloatMax(name) == IF name = "constrain_size" THEN 1000 ELSE 100000

Clamp(v, lo, hi) == IF v < lo THEN lo ELSE IF v > hi THEN hi ELSE v

\* values the user (or a preset) may assign
FloatInputs == {-1, 10, 200000}

Paths == {"model.3ds"}

InputsFor(name) ==
  CASE name \in BoolProps -> BOOLEAN
    [] name \in FloatProps -> FloatInputs
    [] name \in OrientationProps -> Axes
    [] name = "filepath" -> Paths

\* _update_axis_forward: move axis_up off the axis axis_forward now uses
update_axis_forward(self) ==
  IF AxisLetter(self.axis_forward) = AxisLetter(self.axis_up)
  THEN [self EXCEPT !.axis_up =
          MakeAxis(AxisPrefix(self.axis_up), NextLetter(AxisLetter(self.axis_up)))]
  ELSE self

\* _update_axis_up: move axis_forward off the axis axis_up now uses
update_axis_up(self) ==
  IF AxisLetter(self.axis_up) = AxisLetter(self.axis_forward)
  THEN [self EXCEPT !.axis_forward =
          MakeAxis(AxisPrefix(self.axis_forward),
                   NextLetter(AxisLetter(self.axis_forward)))]
  ELSE self

\* assigning a property: range clamp for floats, update callback for axes
SetProperty(self, name, v) ==
  CASE name \in FloatProps ->
         [self EXCEPT ![name] = Clamp(v, FloatMin(name), FloatMax(name))]
    [] name = "axis_forward" ->
         update_axis_forward([self EXCEPT ![name] = v])
    [] name = "axis_up" ->
         update_axis_up([self EXCEPT ![name] = v])
    [] OTHER -> [self EXCEPT ![name] = v]

\* Operator.as_keywords(ignore=...): a copy of the operator's properties
as_keywords(self, ignore) ==
  [k \in (DOMAIN self) \ (ignore \cup {"rna_type"}) |-> self[k]]

\* keywords[key] = value
DictSet(d, key, value) ==
  [k \in (DOMAIN d) \cup {key} |-> IF k = key THEN value ELSE d[k]]

(***************************************************************************)
(* Import3DS.execute / Export3DS.execute                                   *)
(***************************************************************************)
Import3DS_ignore_with_glob == {"axis_forward", "axis_up"}

\* ignore=("axis_forward", "axis_up", "filter_glob")
Import3DS_ignore == {"axis_forward", "axis_up", "filter_glob"}

\* ignore=("axis_forward", "axis_up", "filter_glob", "check_existing")
Export3DS_ignore == {"axis_forward", "axis_up", "filter_glob", "check_existing"}

Import3DS_axis_raises(self) ==
  axis_conversion_raises(self.axis_forward, self.axis_up, "Y", "Z")

Export3DS_axis_raises(self) ==
  axis_conversion_raises("Y", "Z", self.axis_forward, self.axis_up)

\* axis_conversion(from_forward=self.axis_forward, from_up=self.axis_up).to_4x4()
Import3DS_global_matrix(self) ==
  to_4x4(axis_conversion(self.axis_forward, self.axis_up, "Y", "Z"))

Export3DS_global_matrix_from(self) ==
  to_4x4(axis_conversion(self.axis_forward, self.axis_up, "Y", "Z"))

\* axis_conversion(to_forward=self.axis_forward, to_up=self.axis_up).to_4x4()
Export3DS_global_matrix(self) ==
  to_4x4(axis_conversion("Y", "Z", self.axis_forward, self.axis_up))

\* the record handed to import_3ds.load as **keywords
Import3DS_keywords(self) ==
  DictSet(as_keywords(self, Import3DS_ignore),
          "global_matrix", Import3DS_global_matrix(self))

\* the record handed to export_3ds.save as **keywords
Export3DS_keywords(self) ==
  DictSet(as_keywords(self, Export3DS_ignore),
          "global_matrix", Export3DS_global_matrix(self))

Import3DS_return_finished(status) == "FINISHED"

\* return import_3ds.load(self, context, **keywords)
Import3DS_return(status) == status

\* return export_3ds.save(self, context, **keywords)
Export3DS_return(status) == status

Import3DS_self_keeps_matrix(self) ==
  DictSet(self, "global_matrix", Import3DS_global_matrix(self))

\* the operator after execute: execute assigns nothing on self
Import3DS_self_after(self) == self

\* the operator after execute: execute assigns nothing on self
Export3DS_self_after(self) == self

\* what the codec delegate may answer: {'FINISHED'}, {'CANCELLED'}, or an
\* exception of its own
DelegateOutcomes == {"FINISHED", "CANCELLED", "RAISED"}

(***************************************************************************)
(* Option panels                                                           *)
(***************************************************************************)
Panels ==
  {"MAX3DS_PT_import_include", "MAX3DS_PT_import_transform",
   "MAX3DS_PT_export_include", "MAX3DS_PT_export_transform"}

\* the literal "IMPORT_SCENE_OT_max3ds"
IMPORT_SCENE_OT_max3ds ==
  <<"I","M","P","O","R","T","_","S","C","E","N","E","_","O","T","_",
    "m","a","x","3","d","s">>

\* the literal "EXPORT_SCENE_OT_max3ds"
EXPORT_SCENE_OT_max3ds ==
  <<"E","X","P","O","R","T","_","S","C","E","N","E","_","O","T","_",
    "m","a","x","3","d","s">>

\* operator.bl_idname of the file browser's active operator (not None)
ActiveIdname(act) == RnaIdname(BlIdname(act))

operator_attribute_raises_always(act) == TRUE

\* operator = sfile.active_operator; operator.bl_idname
\* reading an attribute of None raises AttributeError
operator_attribute_raises(act) == act = None

MAX3DS_PT_import_include_poll(act) == ActiveIdname(act) = IMPORT_SCENE_OT_max3ds

MAX3DS_PT_import_transform_poll(act) == ActiveIdname(act) = IMPORT_SCENE_OT_max3ds

MAX3DS_PT_export_include_poll_import(act) ==
  ActiveIdname(act) = IMPORT_SCENE_OT_max3ds

MAX3DS_PT_export_include_poll(act) == ActiveIdname(act) = EXPORT_SCENE_OT_max3ds

MAX3DS_PT_export_transform_poll(act) == ActiveIdname(act) = EXPORT_SCENE_OT_max3ds

PanelPollValue(p, act) ==
  CASE p = "MAX3DS_PT_import_include" -> MAX3DS_PT_import_include_poll(act)
    [] p = "MAX3DS_PT_import_transform" -> MAX3DS_PT_import_transform_poll(act)
    [] p = "MAX3DS_PT_export_include" -> MAX3DS_PT_export_include_poll(act)
    [] p = "MAX3DS_PT_export_transform" -> MAX3DS_PT_export_transform_poll(act)

\* the layout.prop(operator, name) calls of each draw, in order
MAX3DS_PT_import_include_draw == <<"use_image_search", "read_keyframe">>

MAX3DS_PT_import_transform_draw_short ==
  <<"constrain_size", "convert_measure", "use_apply_transform",
    "axis_forward", "axis_up">>

MAX3DS_PT_import_transform_draw ==
  <<"constrain_size", "convert_measure", "use_apply_transform",
    "use_world_matrix", "axis_forward", "axis_up">>

MAX3DS_PT_export_include_draw ==
  <<"use_selection", "use_hierarchy", "write_keyframe">>

MAX3DS_PT_export_transform_draw == <<"scale_factor", "axis_forward", "axis_up">>

PanelDrawCalls(p) ==
  CASE p = "MAX3DS_PT_import_include" -> MAX3DS_PT_import_include_draw
    [] p = "MAX3DS_PT_import_transform" -> MAX3DS_PT_import_transform_draw
    [] p = "MAX3DS_PT_export_include" -> MAX3DS_PT_export_include_draw
    [] p = "MAX3DS_PT_export_transform" -> MAX3DS_PT_export_transform_draw

\* UILayout.prop(None, name) raises TypeError: data must not be None
layout_prop_raises(act) == act = None

\* UILayout.prop(data, name): a widget when data has the property; the host
\* only warns and adds nothing when it has not
RECURSIVE LayoutProps(_, _, _)
LayoutProps(self, names, i) ==
  IF i > Len(names) THEN <<>>
  ELSE (IF names[i] \in DOMAIN self THEN <<names[i]>> ELSE <<>>)
         \o LayoutProps(self, names, i + 1)

(***************************************************************************)
(* Menu callbacks                                                          *)
(***************************************************************************)
MenuText == "3D Studio (.3ds)"

\* self.layout.operator(Export3DS.bl_idname, text="3D Studio (.3ds)")
menu_func_export(layout) ==
  Append(layout, [operator |-> Export3DS_bl_idname, text |-> MenuText])

menu_func_import_wrong_operator(layout) ==
  Append(layout, [operator |-> Export3DS_bl_idname, text |-> MenuText])

\* self.layout.operator(Import3DS.bl_idname, text="3D Studio (.3ds)")
menu_func_import(layout) ==
  Append(layout, [operator |-> Import3DS_bl_idname, text |-> MenuText])

\* the callbacks other add-ons attached to the same menus
menu_func_import_obj(layout) ==
  Append(layout, [operator |-> ImportOBJ_bl_idname, text |-> "Wavefront (.obj)"])

menu_func_export_obj(layout) ==
  Append(layout, [operator |-> ExportOBJ_bl_idname, text |-> "Wavefront (.obj)"])

CallDrawFunc(f, layout) ==
  CASE f = "menu_func_import" -> menu_func_import(layout)
    [] f = "menu_func_export" -> menu_func_export(layout)
    [] f = "menu_func_import_obj" -> menu_func_import_obj(layout)
    [] f = "menu_func_export_obj" -> menu_func_export_obj(layout)

\* the host builds a menu by calling its draw functions in order
RECURSIVE BuildMenu(_, _, _)
BuildMenu(funcs, i, layout) ==
  IF i > Len(funcs) THEN layout
  ELSE BuildMenu(funcs, i + 1, CallDrawFunc(funcs[i], layout))

(***************************************************************************)
(* Host registration tables                                                *)
(***************************************************************************)
MenuNames == {"TOPBAR_MT_file_import", "TOPBAR_MT_file_export"}

\* what the host holds before the add-on is enabled
HostClasses == {"FILE_PT_operator", "ImportOBJ", "ExportOBJ"}

HostMenus ==
  [TOPBAR_MT_file_import |-> <<"menu_func_import_obj">>,
   TOPBAR_MT_file_export |-> <<"menu_func_export_obj">>]

OurClasses ==
  {"Import3DS", "MAX3DS_PT_import_include", "MAX3DS_PT_import_transform",
   "Export3DS", "MAX3DS_PT_export_include", "MAX3DS_PT_export_transform"}

OurCallbacks == {"menu_func_import", "menu_func_export"}

ClassCall(api, cls) == [api |-> api, target |-> "classes", arg |-> cls]

MenuCall(api, menu, f) == [api |-> api, target |-> menu, arg |-> f]

register_calls_menus_first ==
  << MenuCall("append", "TOPBAR_MT_file_import", "menu_func_import"),
     MenuCall("append", "TOPBAR_MT_file_export", "menu_func_export"),
     ClassCall("register_class", "Import3DS"),
     ClassCall("register_class", "MAX3DS_PT_import_include"),
     ClassCall("register_class", "MAX3DS_PT_import_transform"),
     ClassCall("register_class", "Export3DS"),
     ClassCall("register_class", "MAX3DS_PT_export_include"),
     ClassCall("register_class", "MAX3DS_PT_export_transform") >>

\* the body of register(), statement by statement
register_calls ==
  << ClassCall("register_class", "Import3DS"),
     ClassCall("register_class", "MAX3DS_PT_import_include"),
     ClassCall("register_class", "MAX3DS_PT_import_transform"),
     ClassCall("register_class", "Export3DS"),
     ClassCall("register_class", "MAX3DS_PT_export_include"),
     ClassCall("register_class", "MAX3DS_PT_export_transform"),
     MenuCall("append", "TOPBAR_MT_file_import", "menu_func_import"),
     MenuCall("append", "TOPBAR_MT_file_export", "menu_func_export") >>

unregister_calls_one_menu ==
  << ClassCall("unregister_class", "Import3DS"),
     ClassCall("unregister_class", "MAX3DS_PT_import_include"),
     ClassCall("unregister_class", "MAX3DS_PT_import_transform"),
     ClassCall("unregister_class", "Export3DS"),
     ClassCall("unregister_class", "MAX3DS_PT_export_include"),
     ClassCall("unregister_class", "MAX3DS_PT_export_transform"),
     MenuCall("remove", "TOPBAR_MT_file_import", "menu_func_import"),
     MenuCall("remove", "TOPBAR_MT_file_import", "menu_func_export") >>

\* the body of unregister(), statement by statement
unregister_calls ==
  << ClassCall("unregister_class", "Import3DS"),
     ClassCall("unregister_class", "MAX3DS_PT_import_include"),
     ClassCall("unregister_class", "MAX3DS_PT_import_transform"),
     ClassCall("unregister_class", "Export3DS"),
     ClassCall("unregister_class", "MAX3DS_PT_export_include"),
     ClassCall("unregister_class", "MAX3DS_PT_export_transform"),
     MenuCall("remove", "TOPBAR_MT_file_import", "menu_func_import"),
     MenuCall("remove", "TOPBAR_MT_file_export", "menu_func_export") >>

\* list.remove(x): drop the first occurrence; Menu.remove swallows the
\* ValueError of a missing one
RECURSIVE RemoveFirst(_, _)
RemoveFirst(seq, x) ==
  IF seq = <<>> THEN <<>>
  ELSE IF Head(seq) = x THEN Tail(seq)
  ELSE <<Head(seq)>> \o RemoveFirst(Tail(seq), x)

\* one call into the host.  t = [classes, menus]; rejected: the host refuses
\* this register_class call for a reason of its own.
\*   register_class raises for a class that is already registered,
\*   unregister_class raises for a class that is not registered,
\*   Menu.append and Menu.remove never raise.
HostCall(t, c, rejected) ==
  CASE c.api = "register_class" ->
         IF c.arg \in t.classes \/ rejected
         THEN [t |-> t, raised |-> TRUE]
         ELSE [t |-> [t EXCEPT !.classes = @ \cup {c.arg}], raised |-> FALSE]
    [] c.api = "unregister_class" ->
         IF c.arg \notin t.classes
         THEN [t |-> t, raised |-> TRUE]
         ELSE [t |-> [t EXCEPT !.classes = @ \ {c.arg}], raised |-> FALSE]
    [] c.api = "append" ->
         [t |-> [t EXCEPT !.menus[c.target] = Append(@, c.arg)], raised |-> FALSE]
    [] c.api = "remove" ->
         [t |-> [t EXCEPT !.menus[c.target] = RemoveFirst(@, c.arg)],
          raised |-> FALSE]

\* run the statements in order; the first one that raises ends the function
\* and nothing is undone
RECURSIVE RunCalls(_, _, _, _)
RunCalls(calls, i, t, rej) ==
  IF i > Len(calls) THEN [t |-> t, raised |-> FALSE, at |-> 0]
  ELSE LET r == HostCall(t, calls[i], i = rej) IN
       IF r.raised THEN [t |-> r.t, raised |-> TRUE, at |-> i]
       ELSE RunCalls(calls, i + 1, r.t, rej)

\* positions of register() at which the host may refuse: the register_class
\* calls (0: it refuses none)
RejectPoints ==
  {0} \cup {i \in 1..Len(register_calls) : register_calls[i].api = "register_class"}

(***************************************************************************)
(* State                                                                   *)
(***************************************************************************)
VARIABLES
  classes,   \* the host's table of registered classes
  menus,     \* the host's draw-function list of each menu
  active,    \* context.space_data.active_operator: None or an operator
  props,     \* the property values of the active operator instance
  edits,     \* property assignments made in this file-browser session
  last       \* what the most recent call did and returned

vars == <<classes, menus, active, props, edits, last>>

Init ==
  /\ classes = HostClasses
  /\ menus = HostMenus
  /\ active = None
  /\ props = NoProps
  /\ edits = 0
  /\ last = [kind |-> "init"]

(***************************************************************************)
(* Actions                                                                 *)
(***************************************************************************)
\* register()
Register ==
  \E rej \in RejectPoints :
    LET r == RunCalls(register_calls, 1, [classes |-> classes, menus |-> menus], rej)
    IN /\ classes' = r.t.classes
       /\ menus' = r.t.menus
       /\ last' = [kind |-> "register", raised |-> r.raised, at |-> r.at]
       /\ UNCHANGED <<active, props, edits>>

\* unregister()
Unregister ==
  LET r == RunCalls(unregister_calls, 1, [classes |-> classes, menus |-> menus], 0)
  IN /\ classes' = r.t.classes
     /\ menus' = r.t.menus
     /\ last' = [kind |-> "unregister", raised |-> r.raised, at |-> r.at]
     /\ UNCHANGED <<active, props, edits>>

\* the host builds File > Import or File > Export
DrawMenu(m) ==
  /\ last' = [kind |-> "menu", menu |-> m,
              layout |-> BuildMenu(menus[m], 1, <<>>)]
  /\ UNCHANGED <<classes, menus, active, props, edits>>

\* the host opens the file browser for an operator (a registered one)
Invoke(op) ==
  /\ active = None
  /\ op \in classes
  /\ active' = op
  /\ props' = Defaults(op)
  /\ edits' = 0
  /\ last' = [kind |-> "invoke", op |-> op]
  /\ UNCHANGED <<classes, menus>>

\* the user edits one option of the active operator
SetProp(name, v) ==
  /\ active \in OurOperators
  /\ edits < MaxEdits
  /\ name \in DOMAIN props
  /\ props' = SetProperty(props, name, v)
  /\ edits' = edits + 1
  /\ last' = [kind |-> "set", name |-> name]
  /\ UNCHANGED <<classes, menus, active>>

\* Import3DS.execute
ImportExecute ==
  /\ active = "Import3DS"
  /\ \E status \in DelegateOutcomes :
       last' =
         IF Import3DS_axis_raises(props)
         THEN [kind |-> "execute", op |-> "Import3DS", delegate |-> "import_3ds.load",
               ncalls |-> 0, own_error |-> TRUE, result |-> "RAISED"]
         ELSE [kind |-> "execute", op |-> "Import3DS", delegate |-> "import_3ds.load",
               ncalls |-> 1, own_error |-> FALSE,
               self |-> props,
               keywords |-> Import3DS_keywords(props),
               status |-> status,
               result |-> Import3DS_return(status)]
  /\ props' = Import3DS_self_after(props)
  /\ UNCHANGED <<classes, menus, active, edits>>

\* Export3DS.execute
ExportExecute ==
  /\ active = "Export3DS"
  /\ \E status \in DelegateOutcomes :
       last' =
         IF Export3DS_axis_raises(props)
         THEN [kind |-> "execute", op |-> "Export3DS", delegate |-> "export_3ds.save",
               ncalls |-> 0, own_error |-> TRUE, result |-> "RAISED"]
         ELSE [kind |-> "execute", op |-> "Export3DS", delegate |-> "export_3ds.save",
               ncalls |-> 1, own_error |-> FALSE,
               self |-> props,
               keywords |-> Export3DS_keywords(props),
               status |-> status,
               result |-> Export3DS_return(status)]
  /\ props' = Export3DS_self_after(props)
  /\ UNCHANGED <<classes, menus, active, edits>>

\* the host closes the file browser
Close ==
  /\ active # None
  /\ active' = None
  /\ props' = NoProps
  /\ edits' = 0
  /\ last' = [kind |-> "close"]
  /\ UNCHANGED <<classes, menus>>

\* poll of a registered panel; a classmethod, evaluated against whatever the
\* file browser holds, an active operator or none
PanelPoll(p) ==
  /\ p \in classes
  /\ last' =
       IF operator_attribute_raises(active)
       THEN [kind |-> "poll", panel |-> p, raised |-> TRUE]
       ELSE [kind |-> "poll", panel |-> p, raised |-> FALSE,
             value |-> PanelPollValue(p, active)]
  /\ UNCHANGED <<classes, menus, active, props, edits>>

\* draw of a registered panel; the host draws a panel whose poll was true
PanelDraw(p) ==
  /\ p \in classes
  /\ ~operator_attribute_raises(active)
  /\ PanelPollValue(p, active)
  /\ last' = [kind |-> "draw", panel |-> p,
              raised |-> layout_prop_raises(active),
              widgets |-> LayoutProps(props, PanelDrawCalls(p), 1)]
  /\ UNCHANGED <<classes, menus, active, props, edits>>

Next ==
  \/ Register
  \/ Unregister
  \/ \E m \in MenuNames : DrawMenu(m)
  \/ \E op \in Operators : Invoke(op)
  \/ \E name \in BoolProps \cup FloatProps \cup OrientationProps \cup {"filepath"} :
       \E v \in InputsFor(name) : SetProp(name, v)
  \/ ImportExecute
  \/ ExportExecute
  \/ Close
  \/ \E p \in Panels : PanelPoll(p)
  \/ \E p \in Panels : PanelDraw(p)

Spec == Init /\ [][Next]_vars

(***************************************************************************)
(* Properties                                                              *)
(***************************************************************************)
Range(seq) == {seq[i] : i \in 1..Len(seq)}

Executed == last.kind = "execute" /\ last.ncalls = 1

AllProps(op) == DeclaredProps(op) \cup InheritedProps(op)

ClaimedExcluded == {"axis_forward", "axis_up", "filter_glob"}

ActuallyExcluded(op) ==
  IF op = "Export3DS" THEN ClaimedExcluded \cup {"check_existing"}
  ELSE ClaimedExcluded

\* C1 as stated: the record handed to the delegate has exactly the keys the
\* operator declares, less axis_forward, axis_up and filter_glob.
C1_ExactlyDeclared ==
  Executed =>
    DOMAIN last.keywords = DeclaredProps(last.op) \ ClaimedExcluded

\* C1 amended: the record handed to the delegate has exactly the operator's
\* properties (the declared ones and the inherited filepath / check_existing)
\* less axis_forward, axis_up, filter_glob and, for export, check_existing,
\* plus the added key global_matrix; every option passed through carries the
\* operator's current value.
C1_Keywords ==
  Executed =>
    /\ DOMAIN last.keywords =
         (AllProps(last.op) \ ActuallyExcluded(last.op)) \cup {"global_matrix"}
    /\ \A k \in (DOMAIN last.keywords) \ {"global_matrix"} :
         last.keywords[k] = last.self[k]

C1_Witness ==
  /\ Executed
  /\ last.op = "Export3DS"
  /\ last.keywords.use_selection = TRUE
  /\ last.keywords.scale_factor = 10

Vec4(v) == <<v[1], v[2], v[3], 0>>

\* C2: the matrix import hands over is the change of basis of the configured
\* pair (it takes the file's forward to +Y, its up to +Z, its right to +X and
\* leaves the origin alone); the matrix export hands over for the same pair
\* is its inverse: the two compose to the identity, in either order.
C2_AxisTransforms ==
  Executed =>
    LET f == last.self.axis_forward
        u == last.self.axis_up
        gm == last.keywords.global_matrix
    IN IF last.op = "Import3DS"
       THEN /\ MatVec4(gm, Vec4(AxisVec(f))) = <<0, 1, 0, 0>>
            /\ MatVec4(gm, Vec4(AxisVec(u))) = <<0, 0, 1, 0>>
            /\ MatVec4(gm, Vec4(Cross(AxisVec(f), AxisVec(u)))) = <<1, 0, 0, 0>>
            /\ MatVec4(gm, <<0, 0, 0, 1>>) = <<0, 0, 0, 1>>
       ELSE /\ MatMul4(gm, Import3DS_global_matrix(last.self)) = Identity4
            /\ MatMul4(Import3DS_global_matrix(last.self), gm) = Identity4

\* an export whose rotation is not its own inverse
C2_Witness ==
  /\ Executed
  /\ last.op = "Export3DS"
  /\ MatMul4(last.keywords.global_matrix, last.keywords.global_matrix) # Identity4

Attached(m, f) == \E i \in 1..Len(menus[m]) : menus[m][i] = f

\* C3: register() that completes adds exactly the six classes and the two
\* callbacks, and unregister() that completes leaves the class table and
\* both menu lists as they were before the first register().
C3_Inverse ==
  /\ (last.kind = "register" /\ ~last.raised) =>
       /\ classes = HostClasses \cup OurClasses
       /\ menus = [HostMenus EXCEPT
                     !["TOPBAR_MT_file_import"] = Append(@, "menu_func_import"),
                     !["TOPBAR_MT_file_export"] = Append(@, "menu_func_export")]
  /\ (last.kind = "unregister" /\ ~last.raised) =>
       /\ classes = HostClasses
       /\ menus = HostMenus

C3_Witness == last.kind = "unregister" /\ ~last.raised

PanelOwner(p) ==
  IF p \in {"MAX3DS_PT_import_include", "MAX3DS_PT_import_transform"}
  THEN "Import3DS" ELSE "Export3DS"

\* C4: with an operator active in the file browser, a panel's poll is true
\* exactly when that operator is the panel's owning operator.
C4_Poll ==
  (last.kind = "poll" /\ ~last.raised) =>
    (last.value <=> (active = PanelOwner(last.panel)))

C4_Witness ==
  /\ last.kind = "poll"
  /\ ~last.raised
  /\ last.panel = "MAX3DS_PT_export_include"
  /\ active = "Import3DS"
  /\ last.value = FALSE

\* C5: execute calls its delegate exactly once, raises nothing of its own
\* and returns what the delegate returned.
C5_PassThrough ==
  last.kind = "execute" =>
    /\ last.ncalls = 1
    /\ ~last.own_error
    /\ last.delegate = (IF last.op = "Import3DS" THEN "import_3ds.load"
                        ELSE "export_3ds.save")
    /\ last.result = last.status

C5_Witness ==
  /\ last.kind = "execute"
  /\ last.op = "Import3DS"
  /\ last.ncalls = 1
  /\ last.result = "CANCELLED"

ClassOrder ==
  <<"Import3DS", "MAX3DS_PT_import_include", "MAX3DS_PT_import_transform",
    "Export3DS", "MAX3DS_PT_export_include", "MAX3DS_PT_export_transform">>

Registered == classes \cap OurClasses

BothAttached ==
  /\ Attached("TOPBAR_MT_file_import", "menu_func_import")
  /\ Attached("TOPBAR_MT_file_export", "menu_func_export")

NoneAttached ==
  \A m \in MenuNames : \A f \in OurCallbacks : ~Attached(m, f)

\* C6 as stated: after register() or unregister() completes or fails, either
\* all six classes and both callbacks are registered or none of them are.
C6_AllOrNothing ==
  last.kind \in {"register", "unregister"} =>
    \/ Registered = OurClasses /\ BothAttached
    \/ Registered = {} /\ NoneAttached

\* C6 amended: register() and unregister() are all-or-nothing only when the
\* host rejects no call.  Nothing is rolled back: when the host rejects the
\* k-th register_class call, the k-1 classes registered before it stay
\* registered and no menu callback is attached.  The registered classes are
\* always a prefix of the registration order and the callbacks are attached
\* exactly when all six classes are registered.
C6_PrefixNoRollback ==
  /\ \E n \in 0..Len(ClassOrder) :
       /\ Registered = {ClassOrder[i] : i \in 1..n}
       /\ IF n = Len(ClassOrder) THEN BothAttached ELSE NoneAttached
  /\ (last.kind = "register" /\ ~last.raised) =>
       (Registered = OurClasses /\ BothAttached)
  /\ (last.kind = "unregister" /\ ~last.raised) =>
       (Registered = {} /\ NoneAttached)
  /\ (last.kind = "register" /\ last.raised) =>
       {ClassOrder[i] : i \in 1..(last.at - 1)} \subseteq Registered

C6_Witness ==
  /\ last.kind = "register"
  /\ last.raised
  /\ last.at = 3
  /\ Registered = {"Import3DS", "MAX3DS_PT_import_include"}
  /\ NoneAttached

\* C7 as stated: in every file-browser state, also with no active operator,
\* a panel's poll and draw complete without raising.
C7_NeverRaises ==
  last.kind \in {"poll", "draw"} => ~last.raised

\* C7 amended: in every file-browser state that has an active operator, a
\* panel's poll and draw complete without raising; with no active operator
\* poll raises (it reads bl_idname of None).
C7_RaisesOnlyWithoutOperator ==
  last.kind \in {"poll", "draw"} => (last.raised <=> active = None)

C7_Witness ==
  /\ last.kind = "poll"
  /\ active = "ImportOBJ"
  /\ ~last.raised

OwnMenuOperator(m) ==
  IF m = "TOPBAR_MT_file_import" THEN Import3DS_bl_idname ELSE Export3DS_bl_idname

C8_Entries ==
  last.kind = "menu" =>
    /\ Len(last.layout) = Len(menus[last.menu])
    /\ \A i \in 1..Len(menus[last.menu]) :
         menus[last.menu][i] \in OurCallbacks =>
           /\ last.layout[i].operator = OwnMenuOperator(last.menu)
           /\ last.layout[i].text = "3D Studio (.3ds)"

C8_Stateless ==
  last'.kind = "menu" => UNCHANGED <<classes, menus, active, props, edits>>

\* C8: building a menu gets exactly one entry from each callback, the entry
\* of the callback register() attached to the import menu names the import
\* operator and that of the export menu the export operator, and building a
\* menu changes nothing else.
C8_MenuCallbacks == []C8_Entries /\ [][C8_Stateless]_vars

C8_Witness ==
  /\ last.kind = "menu"
  /\ last.menu = "TOPBAR_MT_file_import"
  /\ Attached("TOPBAR_MT_file_import", "menu_func_import")
  /\ Len(last.layout) = 2

SiblingPanel(p) ==
  CASE p = "MAX3DS_PT_import_include" -> "MAX3DS_PT_import_transform"
    [] p = "MAX3DS_PT_import_transform" -> "MAX3DS_PT_import_include"
    [] p = "MAX3DS_PT_export_include" -> "MAX3DS_PT_export_transform"
    [] p = "MAX3DS_PT_export_transform" -> "MAX3DS_PT_export_include"

\* C9: the fields a panel draws are declared by its operator, none twice,
\* none also drawn by the operator's other panel, and the two panels
\* together draw every declared option that is not hidden.
C9_Partition ==
  last.kind = "draw" =>
    LET calls == PanelDrawCalls(last.panel)
        mine == Range(last.widgets)
        other == Range(PanelDrawCalls(SiblingPanel(last.panel)))
    IN /\ Range(calls) \subseteq DeclaredProps(active)
       /\ last.widgets = calls
       /\ Cardinality(mine) = Len(last.widgets)
       /\ mine \cap other = {}
       /\ mine \cup other = DeclaredProps(active) \ HiddenProps

C9_Witness ==
  /\ last.kind = "draw"
  /\ last.panel = "MAX3DS_PT_import_transform"
  /\ Len(last.widgets) = 6

C10_Frame ==
  last'.kind = "execute" =>
    /\ props' = props
    /\ UNCHANGED <<classes, menus, active, edits>>

C10_MatrixOnlyInRecord ==
  Executed =>
    /\ "global_matrix" \in DOMAIN last.keywords
    /\ "global_matrix" \notin DOMAIN props
    /\ props = last.self

\* C10: execute changes neither the operator's option values nor the host
\* registration tables, and global_matrix exists only in the record handed
\* to the delegate, never on the operator.
C10_ExecuteFrame == [][C10_Frame]_vars /\ []C10_MatrixOnlyInRecord

C10_Witness ==
  /\ Executed
  /\ last.op = "Import3DS"
  /\ props.axis_forward = "-Z"
  /\ props.axis_up = "Y"
  /\ Registered = OurClasses

=============================================================================
